---- MODULE Spec2Model ----
(***************************************************************************)
(* GrinchBotV1, MainBot.py: a Telegram bot that answers every text message *)
(* with a Gemini completion grounded on FAQ.txt.                           *)
(*                                                                         *)
(* The model follows one process from its module-level start-up code       *)
(* through main() into the polling loop, and every inbound update through  *)
(* its handler.  A handler is a coroutine: it runs without interruption    *)
(* from one await to the next, so there is one action per resumption       *)
(* point, and the handlers of different updates interleave there.  The     *)
(* outcomes of the external calls (Telegram sends, the Gemini call, the    *)
(* file system) are inputs chosen by the environment.                      *)
(***************************************************************************)
EXTENDS Naturals, Sequences, FiniteSets

\* ------------------------------------------------------------------ bounds
\* Number of inbound updates followed through their handlers.
NumEvents == 2

Events == 1..NumEvents

\* ------------------------------------------------------- input domains
None == "None"
\* What os.getenv can return for a credential: unset, empty, or a value.
EnvValues == {None, "", "tok"}
StartText == "/start"
Absent == "absent"
Docs == {"doc1", "doc2"}
FileStates == {Absent} \cup Docs
Answers == {"ans1", "ans2"}
RawErrors == {"quota exceeded"}
\* The messages an update can carry: a /start command and two questions,
\* from two chats.
Messages ==
    { [chat |-> "chat1", text |-> StartText],
      [chat |-> "chat1", text |-> "q1"],
      [chat |-> "chat2", text |-> "q2"] }
NoMsg == [chat |-> None, text |-> None]

\* ------------------------------------------------------- program texts
\* (the Ukrainian literals of the source, transliterated)
GREETING == "Pryvit! Ya - asystent kafedry ... Napyshit svoie pytannia"
MISSING_FILE_MSG == "Fail FAQ.txt. Bud laska, perevirte yoho naiavnist."
GENERIC_FAILURE_MSG == "Vynykla pomylka pry obrobtsi vashoho zapytu. Sprobuite shche raz piznishe."
DEFAULT_PARSE_MODE == "HTML"
ANSWER_PARSE_MODE == "Markdown"
PROMPT_HEAD == "Ty - Asystent kafedry ... --- Dovidkova informatsiia ---"
PROMPT_MID == "--- Kinets dovidkovoi informatsii --- Pytannia korystuvacha: "

VARIABLES
    TELEGRAM_TOKEN,  \* os.getenv("TELEGRAM_TOKEN")
    GEMINI_API_KEY,  \* os.getenv("GEMINI_API_KEY")
    procPc,          \* where the process is: "start", "exited", "imported",
                     \* "starting", "polling", "crashed"
    botCreated,      \* Bot(token=...) has been constructed
    webhookCleared,  \* bot.delete_webhook has completed
    log,             \* the log lines written, as a set of <<level, what>>
    faq,             \* FAQ.txt on disk: Absent or its content
    pc,              \* per update: the await its handler is suspended at
    msg,             \* per update: the message (chat, text)
    handler,         \* per update: the handler the dispatcher ran
    typing,          \* per update: chat actions sent, a sequence of chats
    reads,           \* per update: results of load_reference, a sequence
    calls,           \* per update: prompts passed to generate_content_async
    askResult,       \* per update: what ask_gemini returned or raised
    attempts         \* per update: message.answer calls, with their outcome

vars == <<TELEGRAM_TOKEN, GEMINI_API_KEY, procPc, botCreated, webhookCleared,
          log, faq, pc, msg, handler, typing, reads, calls, askResult, attempts>>

procVars == <<TELEGRAM_TOKEN, GEMINI_API_KEY, procPc, botCreated, webhookCleared>>

NoResult == [kind |-> "none", text |-> None]

Init ==
    /\ TELEGRAM_TOKEN \in EnvValues
    /\ GEMINI_API_KEY \in EnvValues
    /\ procPc = "start"
    /\ botCreated = FALSE
    /\ webhookCleared = FALSE
    /\ log = {}
    /\ faq \in FileStates
    /\ pc = [e \in Events |-> "idle"]
    /\ msg = [e \in Events |-> NoMsg]
    /\ handler = [e \in Events |-> None]
    /\ typing = [e \in Events |-> <<>>]
    /\ reads = [e \in Events |-> <<>>]
    /\ calls = [e \in Events |-> <<>>]
    /\ askResult = [e \in Events |-> NoResult]
    /\ attempts = [e \in Events |-> <<>>]

\* ------------------------------------------------------------ start-up

\* Python truthiness of the result of os.getenv: None and the empty string are falsy.
Falsy(v) == v = None \/ v = ""

CredentialsMissingAnd(token, key) == Falsy(token) /\ Falsy(key)

\* `not TELEGRAM_TOKEN or not GEMINI_API_KEY`
CredentialsMissing(token, key) == Falsy(token) \/ Falsy(key)

\* The module-level code after load_dotenv(): the credential check, then
\* the construction of the bot, the dispatcher and the Gemini model.
ModuleInit ==
    /\ procPc = "start"
    /\ IF CredentialsMissing(TELEGRAM_TOKEN, GEMINI_API_KEY)
       THEN /\ log' = log \cup {<<"CRITICAL", "missing credentials">>}
            /\ procPc' = "exited"
            /\ UNCHANGED botCreated
       ELSE /\ botCreated' = TRUE
            /\ procPc' = "imported"
            /\ UNCHANGED log
    /\ UNCHANGED <<TELEGRAM_TOKEN, GEMINI_API_KEY, webhookCleared, faq, pc, msg,
                   handler, typing, reads, calls, askResult, attempts>>

\* asyncio.run(main()): main() runs up to `await bot.delete_webhook(...)`.
RunMain ==
    /\ procPc = "imported"
    /\ procPc' = "starting"
    /\ UNCHANGED <<TELEGRAM_TOKEN, GEMINI_API_KEY, botCreated, webhookCleared,
                   log, faq, pc, msg, handler, typing, reads, calls, askResult,
                   attempts>>

\* delete_webhook returns or raises; on success main logs and starts polling,
\* on failure the exception reaches the `except Exception` of __main__.
DeleteWebhookReturn(ok) ==
    /\ procPc = "starting"
    /\ IF ok
       THEN /\ webhookCleared' = TRUE
            /\ log' = log \cup {<<"INFO", "bot starting">>}
            /\ procPc' = "polling"
       ELSE /\ log' = log \cup {<<"CRITICAL", "startup error">>}
            /\ procPc' = "crashed"
            /\ UNCHANGED webhookCleared
    /\ UNCHANGED <<TELEGRAM_TOKEN, GEMINI_API_KEY, botCreated, faq, pc, msg,
                   handler, typing, reads, calls, askResult, attempts>>

\* ------------------------------------------------- the file on disk

\* Somebody edits, creates or deletes FAQ.txt while the bot runs.
FileChange(f) ==
    /\ f # faq
    /\ faq' = f
    /\ UNCHANGED <<procVars, log, pc, msg, handler, typing, reads, calls,
                   askResult, attempts>>

\* ------------------------------------------------------------ utilities

\* load_reference("FAQ.txt") on a disk holding f.  io is the outcome of
\* open/read on an existing file: "ok", or "error" for an I/O, permission
\* or decoding error.  (A file deleted between os.path.exists and open is
\* the same behaviour as a FileChange just before the call.)
load_reference_cached(f, io) ==
    IF f = Absent THEN [kind |-> "FileNotFoundError", text |-> None]
    ELSE IF io = "error" THEN [kind |-> "OSError", text |-> None]
    ELSE IF \E o \in Events : reads[o] # <<>> /\ reads[o][1].kind = "ok"
    THEN LET o == CHOOSE o \in Events : reads[o] # <<>> /\ reads[o][1].kind = "ok"
         IN  reads[o][1]
    ELSE [kind |-> "ok", text |-> f]

load_reference(f, io) ==
    IF f = Absent THEN [kind |-> "FileNotFoundError", text |-> None]
    ELSE IF io = "error" THEN [kind |-> "OSError", text |-> None]
    ELSE [kind |-> "ok", text |-> f]

\* The prompt ask_gemini builds: the fixed instructions, the reference, the
\* closing delimiter and the question, concatenated in this order.
Prompt(question, reference) == <<PROMPT_HEAD, reference, PROMPT_MID, question>>

\* message.answer(text, parse_mode=mode): a sendMessage to the chat the
\* message came from, not yet completed.
Answer(e, text, mode) ==
    [chat |-> msg[e].chat, text |-> text, mode |-> mode, status |-> "pending"]

\* The pending message.answer of update e completes with the given status.
Resolve(e, status) ==
    [attempts EXCEPT ![e][Len(attempts[e])].status = status]

\* ------------------------------------------------------------ handlers

\* Command("start") filter of handle_start.
IsStartCommand(m) == m.text = StartText

\* handle_start up to its await: the log line and message.answer(greeting).
handle_start(e, m) ==
    /\ handler' = [handler EXCEPT ![e] = "handle_start"]
    /\ log' = log \cup {<<"INFO", "start command">>}
    /\ attempts' = [attempts EXCEPT ![e] =
                       Append(@, [chat |-> m.chat, text |-> GREETING,
                                  mode |-> DEFAULT_PARSE_MODE, status |-> "pending"])]
    /\ pc' = [pc EXCEPT ![e] = "answer_greeting"]
    /\ UNCHANGED typing

\* handle_text up to its first await: the log line and send_chat_action.
handle_text(e, m) ==
    /\ handler' = [handler EXCEPT ![e] = "handle_text"]
    /\ log' = log \cup {<<"INFO", "message received">>}
    /\ typing' = [typing EXCEPT ![e] = Append(@, m.chat)]
    /\ pc' = [pc EXCEPT ![e] = "typing"]
    /\ UNCHANGED attempts

\* The polling loop receives update e carrying message m and runs the first
\* registered handler whose filter matches: handle_start is registered
\* first with Command("start"), handle_text second with no filter.
Dispatch(e, m) ==
    /\ procPc = "polling"
    /\ pc[e] = "idle"
    /\ \A o \in Events : o < e => pc[o] # "idle"
    /\ msg' = [msg EXCEPT ![e] = m]
    /\ IF IsStartCommand(m) THEN handle_start(e, m) ELSE handle_text(e, m)
    /\ UNCHANGED <<procVars, faq, reads, calls, askResult>>

\* handle_start resumes after message.answer: it returns, or the send's
\* exception leaves the handler.
GreetingSendReturn(e, ok) ==
    /\ pc[e] = "answer_greeting"
    /\ attempts' = Resolve(e, IF ok THEN "ok" ELSE "failed")
    /\ pc' = [pc EXCEPT ![e] = IF ok THEN "done" ELSE "raised"]
    /\ UNCHANGED <<procVars, log, faq, msg, handler, typing, reads, calls, askResult>>

\* load_reference raised FileNotFoundError: logged, then the notice is sent.
OnFileNotFound(e) ==
    /\ log' = log \cup {<<"ERROR", "FAQ.txt not found">>}
    /\ attempts' = [attempts EXCEPT ![e] =
                       Append(@, Answer(e, MISSING_FILE_MSG, DEFAULT_PARSE_MODE))]
    /\ pc' = [pc EXCEPT ![e] = "answer_missing"]
    /\ UNCHANGED calls

\* ask_gemini(message.text, reference_text) up to its await.
StartAsk(e, reference) ==
    /\ calls' = [calls EXCEPT ![e] = Append(@, Prompt(msg[e].text, reference))]
    /\ pc' = [pc EXCEPT ![e] = "asking"]
    /\ UNCHANGED <<log, attempts>>

\* handle_text resumes after send_chat_action.  If that raised, the
\* exception leaves the handler (it is outside both try blocks).  Otherwise
\* load_reference runs: FileNotFoundError is caught, any other error leaves
\* the handler, and a loaded reference goes to ask_gemini.
TypingReturn(e, ok, io) ==
    /\ pc[e] = "typing"
    /\ IF ~ok
       THEN /\ pc' = [pc EXCEPT ![e] = "raised"]
            /\ UNCHANGED <<reads, calls, log, attempts>>
       ELSE LET r == load_reference(faq, io) IN
            /\ reads' = [reads EXCEPT ![e] = Append(@, r)]
            /\ IF r.kind = "FileNotFoundError" THEN OnFileNotFound(e)
               ELSE IF r.kind = "ok" THEN StartAsk(e, r.text)
               ELSE /\ pc' = [pc EXCEPT ![e] = "raised"]
                    /\ UNCHANGED <<calls, log, attempts>>
    /\ UNCHANGED <<procVars, faq, msg, handler, typing, askResult>>

\* `except Exception as e`: the error is logged with its text and the
\* generic failure message is sent.  att is the record of the sends so far.
OnExceptionRetry(e, errText, att) ==
    /\ log' = log \cup {<<"ERROR", errText>>}
    /\ attempts' = att
    /\ calls' = [calls EXCEPT ![e] = Append(@, calls[e][1])]
    /\ pc' = [pc EXCEPT ![e] = "asking"]

OnException(e, errText, att) ==
    /\ log' = log \cup {<<"ERROR", errText>>}
    /\ attempts' = [att EXCEPT ![e] =
                       Append(@, Answer(e, GENERIC_FAILURE_MSG, DEFAULT_PARSE_MODE))]
    /\ pc' = [pc EXCEPT ![e] = "answer_generic"]
    /\ UNCHANGED calls

\* ask_gemini returned text: message.answer(answer, parse_mode="Markdown").
OnAnswerDefaultMode(e, text) ==
    /\ attempts' = [attempts EXCEPT ![e] =
                       Append(@, Answer(e, text, DEFAULT_PARSE_MODE))]
    /\ pc' = [pc EXCEPT ![e] = "answer_reply"]
    /\ UNCHANGED <<log, calls>>

OnAnswer(e, text) ==
    /\ attempts' = [attempts EXCEPT ![e] =
                       Append(@, Answer(e, text, ANSWER_PARSE_MODE))]
    /\ pc' = [pc EXCEPT ![e] = "answer_reply"]
    /\ UNCHANGED <<log, calls>>

\* What generate_content_async / result.text can do: return text or raise.
AskOutcomes ==
    [kind : {"ok"}, text : Answers] \cup [kind : {"error"}, text : RawErrors]

\* handle_text resumes after ask_gemini, inside the second try block.
AskReturn(e, r) ==
    /\ pc[e] = "asking"
    /\ askResult' = [askResult EXCEPT ![e] = r]
    /\ IF r.kind = "ok" THEN OnAnswer(e, r.text)
       ELSE OnException(e, r.text, attempts)
    /\ UNCHANGED <<procVars, faq, msg, handler, typing, reads>>

\* handle_text resumes after message.answer(answer, ...), which is inside
\* the same try block: its exception is handled like one of ask_gemini.
ReplySendReturnOutsideTry(e, ok) ==
    /\ pc[e] = "answer_reply"
    /\ attempts' = Resolve(e, IF ok THEN "ok" ELSE "failed")
    /\ log' = IF ok THEN log \cup {<<"INFO", "answer given">>} ELSE log
    /\ pc' = [pc EXCEPT ![e] = IF ok THEN "done" ELSE "raised"]
    /\ UNCHANGED <<procVars, faq, msg, handler, typing, reads, calls, askResult>>

ReplySendReturn(e, ok) ==
    /\ pc[e] = "answer_reply"
    /\ IF ok
       THEN /\ attempts' = Resolve(e, "ok")
            /\ log' = log \cup {<<"INFO", "answer given">>}
            /\ pc' = [pc EXCEPT ![e] = "done"]
            /\ UNCHANGED calls
       ELSE OnException(e, "send failed", Resolve(e, "failed"))
    /\ UNCHANGED <<procVars, faq, msg, handler, typing, reads, askResult>>

\* handle_text resumes after the missing-file notice (then `return`) or
\* after the generic failure message (the end of the except block); an
\* exception of either send is inside no try block.
NoticeSendReturn(e, ok) ==
    /\ pc[e] \in {"answer_missing", "answer_generic"}
    /\ attempts' = Resolve(e, IF ok THEN "ok" ELSE "failed")
    /\ pc' = [pc EXCEPT ![e] = IF ok THEN "done" ELSE "raised"]
    /\ UNCHANGED <<procVars, log, faq, msg, handler, typing, reads, calls, askResult>>

\* ------------------------------------------------------ specification

Next ==
    \/ ModuleInit
    \/ RunMain
    \/ \E ok \in BOOLEAN : DeleteWebhookReturn(ok)
    \/ \E f \in FileStates : FileChange(f)
    \/ \E e \in Events, m \in Messages : Dispatch(e, m)
    \/ \E e \in Events, ok \in BOOLEAN : GreetingSendReturn(e, ok)
    \/ \E e \in Events, ok \in BOOLEAN, io \in {"ok", "error"} : TypingReturn(e, ok, io)
    \/ \E e \in Events, r \in AskOutcomes : AskReturn(e, r)
    \/ \E e \in Events, ok \in BOOLEAN : ReplySendReturn(e, ok)
    \/ \E e \in Events, ok \in BOOLEAN : NoticeSendReturn(e, ok)

Spec == Init /\ [][Next]_vars

\* ------------------------------------------------------------ properties

\* The handler of update e has ended, by returning or by an exception.
Finished(e) == pc[e] \in {"done", "raised"}

IsDelivered(a) == a.status = "ok"

\* The replies delivered to the chat for update e, in order.
Replies(e) == SelectSeq(attempts[e], IsDelivered)

FileNotFound == [kind |-> "FileNotFoundError", text |-> None]

Sent(chat, text, mode, status) ==
    [chat |-> chat, text |-> text, mode |-> mode, status |-> status]

\* C1: once the handler of an update has finished, exactly one reply has
\* been delivered for that update, whatever step failed.
C1_ExactlyOneReply ==
    \A e \in Events : Finished(e) => Len(Replies(e)) = 1

\* C2: when load_reference found no file, the finished handling delivered
\* exactly one reply, the missing-file message, and made no upstream call.
C2_MissingFileNotice ==
    \A e \in Events :
        (reads[e] = <<FileNotFound>> /\ Finished(e)) =>
            /\ Len(Replies(e)) = 1
            /\ Replies(e)[1].text = MISSING_FILE_MSG
            /\ calls[e] = <<>>

\* C3: when ask_gemini raised, the finished handling delivered exactly one
\* reply, the generic failure message, and no send carried the raw error.
C3_GenericFailureReply ==
    \A e \in Events :
        (askResult[e].kind = "error" /\ Finished(e)) =>
            /\ Len(Replies(e)) = 1
            /\ Replies(e)[1].text = GENERIC_FAILURE_MSG
            /\ \A i \in 1..Len(attempts[e]) : attempts[e][i].text \notin RawErrors

\* C4: no exception leaves handle_text, whatever step of it fails.
C4_NothingEscapes ==
    \A e \in Events : handler[e] = "handle_text" => pc[e] # "raised"

\* C5: a /start update is handled by handle_start alone and, once finished,
\* has exactly one reply, the greeting, with no chat action, no read of the
\* reference and no upstream call.
C5_StartGreeting ==
    \A e \in Events :
        msg[e].text = StartText =>
            /\ handler[e] = "handle_start"
            /\ typing[e] = <<>> /\ reads[e] = <<>> /\ calls[e] = <<>>
            /\ Finished(e) =>
                   Replies(e) = <<Sent(msg[e].chat, GREETING, DEFAULT_PARSE_MODE, "ok")>>

\* C6: with either credential unset or empty, the process logs a critical
\* error and exits before the bot is created: the webhook is never cleared,
\* polling never starts and no update is ever handled.
C6_NoStartWithoutCredentials ==
    (TELEGRAM_TOKEN \in {None, ""} \/ GEMINI_API_KEY \in {None, ""}) =>
        /\ procPc \in {"start", "exited"}
        /\ procPc = "exited" => <<"CRITICAL", "missing credentials">> \in log
        /\ ~botCreated
        /\ ~webhookCleared
        /\ \A e \in Events : pc[e] = "idle" /\ handler[e] = None /\ attempts[e] = <<>>

\* Only one credential is missing (the key is empty) and the process exited.
C6_Witness ==
    /\ TELEGRAM_TOKEN = "tok"
    /\ GEMINI_API_KEY = ""
    /\ procPc = "exited"

\* C7 as stated: when the upstream call returned T and the handler
\* returned, the reply delivered for the update is exactly T, in Markdown,
\* to the chat of the update.
C7_ReplyIsAnswer ==
    \A e \in Events :
        (askResult[e].kind = "ok" /\ pc[e] = "done") =>
            Replies(e) = <<Sent(msg[e].chat, askResult[e].text, "Markdown", "ok")>>

\* C7 amended: when the upstream call returned T, the first send of the
\* update carries exactly T, in Markdown, to the chat of the update; if that
\* send succeeds it is the only send, and if it fails the only other send is
\* the generic failure message to the same chat.  No send of an update goes
\* to another chat or carries another answer, however handlers interleave.
C7_AnswerRelayed ==
    \A e \in Events :
        askResult[e].kind = "ok" =>
            LET a == attempts[e] IN
            /\ Len(a) >= 1
            /\ a[1].chat = msg[e].chat
            /\ a[1].text = askResult[e].text
            /\ a[1].mode = "Markdown"
            /\ a[1].status = "ok" => (Len(a) = 1 /\ pc[e] = "done")
            /\ a[1].status = "pending" => Len(a) = 1
            /\ a[1].status = "failed" =>
                   /\ Len(a) = 2
                   /\ a[2].chat = msg[e].chat
                   /\ a[2].text = GENERIC_FAILURE_MSG
                   /\ a[2].mode = DEFAULT_PARSE_MODE

\* One update answered with its own text in its own chat while the handler
\* of another update, for another chat, is suspended on the send of a
\* different answer.
C7_Witness ==
    \E e1, e2 \in Events :
        /\ e1 # e2
        /\ pc[e1] = "done" /\ askResult[e1].kind = "ok"
        /\ Replies(e1) = <<Sent(msg[e1].chat, askResult[e1].text, "Markdown", "ok")>>
        /\ pc[e2] = "answer_reply" /\ askResult[e2].kind = "ok"
        /\ askResult[e1].text # askResult[e2].text
        /\ msg[e1].chat # msg[e2].chat
        /\ reads[e1] # reads[e2]

\* C8: every step in which a handler reads the reference takes the result
\* from the file as it is on disk in that step: an upstream call is given
\* the prompt built from the current content, and the missing-file notice
\* is sent exactly when the file is absent in that step.
C8_NoCaching ==
    [][\A e \in Events :
          reads'[e] # reads[e] =>
              /\ reads'[e] \in { <<FileNotFound>>,
                                 <<[kind |-> "ok", text |-> faq]>>,
                                 <<[kind |-> "OSError", text |-> None]>> }
              /\ (reads'[e] = <<FileNotFound>>) = (faq = Absent)
              /\ (pc'[e] = "answer_missing") = (faq = Absent)
              /\ reads'[e][1].kind = "ok" =>
                     calls'[e] = <<Prompt(msg[e].text, faq)>>
              /\ reads'[e][1].kind # "ok" => calls'[e] = <<>>]_vars

\* Two updates whose upstream calls were given different contents of the
\* file, which has since been deleted.
C8_Witness ==
    \E e1, e2 \in Events :
        /\ e1 < e2
        /\ calls[e1] # <<>> /\ calls[e2] # <<>>
        /\ calls[e1][1][2] = "doc1"
        /\ calls[e2][1][2] = "doc2"
        /\ faq = Absent

\* C9: handling one update makes at most one upstream call and at most one
\* read of the reference, exactly one call when the reference was loaded,
\* and still one after the call or the send of its answer failed.
C9_NoRetry ==
    \A e \in Events :
        /\ Len(calls[e]) <= 1
        /\ Len(reads[e]) <= 1
        /\ (reads[e] # <<>> /\ reads[e][1].kind = "ok") <=> Len(calls[e]) = 1
        /\ askResult[e].kind # "none" => Len(calls[e]) = 1

\* A finished handling whose upstream call failed.
C9_Witness ==
    \E e \in Events :
        /\ askResult[e].kind = "error"
        /\ Finished(e)
        /\ Len(calls[e]) = 1
        /\ Len(reads[e]) = 1

GenericAttempted(e) ==
    \E i \in 1..Len(attempts[e]) : attempts[e][i].text = GENERIC_FAILURE_MSG

\* C10: in handle_text the generic failure message is sent exactly when
\* ask_gemini raised or the send of the answer raised; an update has at most
\* two sends, the second only after the first failed; and a failed send of
\* the generic message or of the missing-file notice leaves the handler as
\* an exception.
C10_GenericSend ==
    \A e \in Events :
        handler[e] = "handle_text" =>
            LET a == attempts[e] IN
            /\ GenericAttempted(e) <=>
                   \/ askResult[e].kind = "error"
                   \/ askResult[e].kind = "ok" /\ Len(a) >= 1 /\ a[1].status = "failed"
            /\ Len(a) <= 2
            /\ Len(a) = 2 =>
                   /\ a[1].status = "failed"
                   /\ a[1].text = askResult[e].text
                   /\ a[2].text = GENERIC_FAILURE_MSG
            /\ (a # <<>> /\ a[Len(a)].status = "failed"
                   /\ a[Len(a)].text \in {GENERIC_FAILURE_MSG, MISSING_FILE_MSG})
               => pc[e] = "raised"

\* The send of the answer failed, then the send of the generic message.
C10_Witness ==
    \E e \in Events :
        /\ Len(attempts[e]) = 2
        /\ attempts[e][1].status = "failed"
        /\ attempts[e][2].status = "failed"
        /\ pc[e] = "raised"

====
